---- MODULE Spec2Model ----
(***************************************************************************)
(* State-machine model of src/main.py: the /route handler (get_route), the *)
(* imagery sampler (get_mapillary_images_along_route), the route           *)
(* aggregator (classify_route_safety) and the classifier call              *)
(* (analyze_image) serialised by the process-wide asyncio.Lock             *)
(* openrouter_lock.                                                        *)
(*                                                                         *)
(* Every request is one coroutine.  req[r] holds its local variables under *)
(* the names of the source and its position pc; one action is one resume   *)
(* of the coroutine.  Text is a sequence of one-character strings, so that *)
(* strip(), lower(), int() and the substring test are computed.            *)
(* A coordinate list is modelled by its length: the coordinate at index i  *)
(* is identified with i.                                                   *)
(***************************************************************************)
EXTENDS Integers, Sequences, FiniteSets, TLC

VARIABLES req, openrouter_lock, graphhopper, obs

vars == <<req, openrouter_lock, graphhopper, obs>>

(***************************************************************************)
(* Bounds of the model.                                                    *)
(***************************************************************************)
NumReqs == 2
MaxPaths == 2
MaxImages == 6
MaxLen == 20
MaxStep == 15
MaxSamples == 3

Reqs == 1..NumReqs

(***************************************************************************)
(* Program constants.                                                      *)
(***************************************************************************)
retries == 3
max_images == 5
RouteStep == 15
FallbackWait == 5
MapillaryLimit == 1

None == "None"

(***************************************************************************)
(* Text.                                                                   *)
(***************************************************************************)
Uppers == <<"A", "B", "C", "D", "E", "F", "G", "H", "I", "J", "K", "L", "M",
            "N", "O", "P", "Q", "R", "S", "T", "U", "V", "W", "X", "Y", "Z">>
Lowers == <<"a", "b", "c", "d", "e", "f", "g", "h", "i", "j", "k", "l", "m",
            "n", "o", "p", "q", "r", "s", "t", "u", "v", "w", "x", "y", "z">>
Whitespace == {" ", "\n", "\t"}
Digits == <<"0", "1", "2", "3", "4", "5", "6", "7", "8", "9">>

LowerChar(c) ==
    IF \E n \in DOMAIN Uppers : Uppers[n] = c
    THEN Lowers[CHOOSE n \in DOMAIN Uppers : Uppers[n] = c]
    ELSE c

\* str.lower()
LowerIdentity(s) == s
Lower(s) == [n \in DOMAIN s |-> LowerChar(s[n])]

\* str.strip()
RECURSIVE LStrip(_)
LStrip(s) ==
    IF s # <<>> /\ Head(s) \in Whitespace THEN LStrip(Tail(s)) ELSE s

RECURSIVE RStrip(_)
RStrip(s) ==
    IF s # <<>> /\ s[Len(s)] \in Whitespace
    THEN RStrip(SubSeq(s, 1, Len(s) - 1))
    ELSE s

Strip(s) == LStrip(RStrip(s))

\* sub in s
Contains(s, sub) ==
    \E o \in 0..(Len(s) - Len(sub)) : SubSeq(s, o + 1, o + Len(sub)) = sub

DigitValue(c) == (CHOOSE n \in DOMAIN Digits : Digits[n] = c) - 1

IsDigits(s) ==
    /\ s # <<>>
    /\ \A n \in DOMAIN s : \E d \in DOMAIN Digits : Digits[d] = s[n]

\* int(s) of a decimal text; anything else raises ValueError
RECURSIVE IntOf(_)
IntOf(s) ==
    IF s = <<>> THEN 0
    ELSE 10 * IntOf(SubSeq(s, 1, Len(s) - 1)) + DigitValue(s[Len(s)])

DANGER == <<"d", "a", "n", "g", "e", "r">>

\* the text holds the letters d-a-n-g-e-r in a row, each in either case
SameLetter(c, d) ==
    c = d \/ \E n \in DOMAIN Lowers : Lowers[n] = d /\ Uppers[n] = c

NamesDanger(s) ==
    \E o \in 0..(Len(s) - Len(DANGER)) :
        \A j \in DOMAIN DANGER : SameLetter(s[o + j], DANGER[j])

(***************************************************************************)
(* The answers of the external services.                                   *)
(***************************************************************************)
Answers ==
    { <<"s", "a", "f", "e">>,
      <<"d", "a", "n", "g", "e", "r">>,
      <<" ", "D", "a", "N", "G", "e", "r", "\n">>,
      <<>>,
      <<"u", "n", "c", "l", "e", "a", "r">> }

RetryAfterHeaders ==
    { [present |-> FALSE, value |-> <<>>],
      [present |-> TRUE, value |-> <<>>],
      [present |-> TRUE, value |-> <<"2">>],
      [present |-> TRUE, value |-> <<"W", "e", "d">>] }

ErrorStatuses == {401, 500}

OpenRouterResponses ==
    {[status |-> 200, content |-> a, retry_after |-> [present |-> FALSE, value |-> <<>>]] :
        a \in Answers}
    \cup {[status |-> 429, content |-> <<>>, retry_after |-> h] : h \in RetryAfterHeaders}
    \cup {[status |-> s, content |-> <<>>, retry_after |-> [present |-> FALSE, value |-> <<>>]] :
        s \in ErrorStatuses}

\* the sequences over S of length at most n
RECURSIVE SeqsUpTo(_, _)
SeqsUpTo(S, n) ==
    IF n = 0 THEN {<<>>}
    ELSE LET shorter == SeqsUpTo(S, n - 1)
         IN  shorter \cup {Append(s, x) : s \in shorter, x \in S}

ImgA == [id |-> "a", thumb_1024_url |-> "url_a"]
ImgB == [id |-> "b", thumb_1024_url |-> None]
Images == {ImgA, ImgB}

\* the "data" array of an imagery answer holds at most `limit` records
MapillaryData == SeqsUpTo(Images, MapillaryLimit)
MapillaryResponses ==
    {[status |-> 200, data |-> d] : d \in MapillaryData}
    \cup {[status |-> 500, data |-> <<>>]}

GeocodeResponses ==
    {[status |-> 200, data |-> "hit"], [status |-> 200, data |-> "empty"],
     [status |-> 500, data |-> "empty"]}

Min(a, b) == IF a < b THEN a ELSE b

Take(s, n) == SubSeq(s, 1, Min(n, Len(s)))

(***************************************************************************)
(* asyncio.Lock: a flag and the FIFO of waiting coroutines.  release()     *)
(* wakes the first waiter, which takes the lock when it is resumed; a      *)
(* newcomer takes the lock at once only if it is free and nobody waits.    *)
(***************************************************************************)
FreeLock == [locked |-> FALSE, waiters |-> <<>>, woken |-> {}]

LockTakeableAlways(l) == TRUE
LockTakeable(l) == ~l.locked /\ l.waiters = <<>>

ReleaseWakesNobody(l) == [locked |-> FALSE, waiters |-> l.waiters, woken |-> {}]
ReleaseKeepsLock(l) == l
Release(l) ==
    [locked |-> FALSE,
     waiters |-> l.waiters,
     woken |-> IF l.waiters = <<>> THEN {} ELSE {Head(l.waiters)}]

Remove(s, x) == SelectSeq(s, LAMBDA y : y # x)

(***************************************************************************)
(* The frame of one request and what is observed of it.                    *)
(***************************************************************************)
NoResponse == [kind |-> "none", code |-> 0, routes |-> <<>>]

Frame(p) ==
    [pc |-> p, start_coords |-> "unset", end_coords |-> "unset",
     route_data |-> <<>>, routes_with_status |-> <<>>, path |-> 0,
     coords_list |-> 0, step |-> RouteStep, i |-> 0, images |-> <<>>,
     k |-> 0, safe_count |-> 0, danger_count |-> 0,
     image_url |-> None, attempt |-> 0, wait |-> 0, decision |-> <<>>,
     response |-> NoResponse]

\* obs[r] records, without influencing the program: the indices the sampler
\* queried in its current call; the positions in the image list that the
\* current call of classify_route_safety handed to analyze_image and, per
\* answered call, whether the raw answer names danger; the statuses the
\* current call of analyze_image received, its raw answer and how it ended.
\* Of the outbound calls it records: the last call sent (service, route
\* candidate, and sample index or image position), the number of calls sent and
\* not yet answered, the services called so far, the service whose
\* non-success answer ended the request, the "data" of every answer the
\* sampler got in its current call, the image URLs POSTed by the current call
\* of analyze_image, and the Retry-After header of a 429 answer until the wait
\* that follows it is over.  not_found holds the places ("start", "end") for
\* which the geocoder answered with an empty list.
NoCall == [svc |-> "none", path |-> 0, idx |-> 0]
NoHeader == [present |-> FALSE, value |-> <<>>]

NoObs == [queried |-> <<>>, classified |-> <<>>, verdicts |-> <<>>,
          seen |-> <<>>, answer |-> <<>>, outcome |-> "none",
          last |-> NoCall, pending |-> 0, called |-> {}, failed |-> "none",
          found |-> <<>>, posted |-> <<>>, after429 |-> FALSE,
          retry_after |-> NoHeader, not_found |-> {}]

\* a call is sent / an answer has come
Sent(o, svc, path, idx) ==
    [o EXCEPT !.last = [svc |-> svc, path |-> path, idx |-> idx],
              !.pending = @ + 1, !.called = @ \cup {svc}]
Answered(o) == [o EXCEPT !.pending = @ - 1]
Failed(o, svc) == [o EXCEPT !.pending = @ - 1, !.failed = svc]
\* the geocoder has answered for a place
Geocoded(o, resp, place) ==
    IF resp.status >= 400 THEN Failed(o, "geocode")
    ELSE IF resp.data = "empty"
         THEN [Answered(o) EXCEPT !.not_found = @ \cup {place}]
         ELSE Answered(o)

\* an exception leaves the handler: the framework answers with the status
Raise(f, code) ==
    [f EXCEPT !.pc = "done",
              !.response = [kind |-> "http_error", code |-> code, routes |-> <<>>]]


(***************************************************************************)
(* Small steps of the source, one operator each.                           *)
(***************************************************************************)
\* resp.raise_for_status()
RaiseForStatusNever(status) == FALSE
RaiseForStatus(status) == status >= 400

\* `if not data: return None`, else the coordinates of the first match
GeocodeResult(data, place) == IF data = "empty" THEN None ELSE place

\* `if not start_coords or not end_coords`
UnresolvedBoth(f) == f.start_coords = None /\ f.end_coords = None
Unresolved(f) == f.start_coords = None \/ f.end_coords = None

\* range(0, len(coords_list), step): membership and successor
RangeHas(n, len) == n < len
RangeNextByOne(n, step) == n + 1
RangeNext(n, step) == n + step

\* `if nearby: images.extend(nearby)`
ExtendNew(images, nearby) ==
    images \o SelectSeq(nearby, LAMBDA m : \A n \in DOMAIN images : images[n] # m)
Extend(images, nearby) == IF nearby # <<>> THEN images \o nearby ELSE images

\* images[:max_images]
AnalyzedAll(images) == images
Analyzed(images) == Take(images, max_images)

\* `if not image_url: continue`
UsableAlways(image_url) == TRUE
Usable(image_url) == image_url # None /\ image_url # ""

\* `for attempt in range(retries)`
AttemptInRangeInclusive(attempt) == attempt <= retries
AttemptInRange(attempt) == attempt < retries

\* `e.response.status_code == 429`
RetryableAnyError(status) == TRUE
Retryable(status) == status = 429

\* result["choices"][0]["message"]["content"].strip().lower()
DecisionNoLower(content) == LowerIdentity(Strip(content))
Decision(content) == Lower(Strip(content))

\* `"danger" in decision`
IsDanger(decision) == Contains(decision, DANGER)

\* `"safe" if safe_count >= danger_count else "danger"`
AggregateStrict(safe_count, danger_count) ==
    IF safe_count > danger_count THEN "safe" ELSE "danger"
Aggregate(safe_count, danger_count) ==
    IF safe_count >= danger_count THEN "safe" ELSE "danger"

\* [img.get("thumb_1024_url") for img in images[:5]]
Preview(images) == [n \in 1..Min(5, Len(images)) |-> images[n].thumb_1024_url]

\* routes_with_status.append({... "status": status, "images": [...]});
\* geometry, distance and time of the candidate are named by its index
RouteEntryAlwaysSafe(f) ==
    [path |-> f.path, status |-> "safe", images |-> Preview(f.images)]
RouteEntry(f) ==
    [path |-> f.path, status |-> Aggregate(f.safe_count, f.danger_count),
     images |-> Preview(f.images)]

\* `for path in route_data.get("paths", [])`: the candidate after this one
NextCandidateSame(path) == path
NextCandidate(path) == path + 1

\* asyncio.sleep(wait) stands inside `async with openrouter_lock`
LockWhileSleepingReleased(l) ==
    [locked |-> FALSE, waiters |-> l.waiters,
     woken |-> IF l.waiters = <<>> THEN {} ELSE {Head(l.waiters)}]
LockWhileSleeping(l) == l

(***************************************************************************)
(* get_route                                                               *)
(***************************************************************************)
\* start_coords = await geocode(start_place); then geocode(end_place) is sent
GeocodeStart(r) ==
    /\ req[r].pc = "geo_start"
    /\ \E resp \in GeocodeResponses :
        IF RaiseForStatus(resp.status)
        THEN /\ req' = [req EXCEPT ![r] = Raise(@, 500)]
             /\ obs' = [obs EXCEPT ![r] = Geocoded(@, resp, "start")]
        ELSE /\ req' = [req EXCEPT ![r] =
                    [@ EXCEPT !.pc = "geo_end",
                              !.start_coords = GeocodeResult(resp.data, "start")]]
             /\ obs' = [obs EXCEPT ![r] =
                    Sent(Geocoded(@, resp, "start"), "geocode", 0, 2)]
    /\ UNCHANGED <<openrouter_lock, graphhopper>>

\* end_coords = await geocode(end_place), then the not-found test, then the
\* routing request is sent
GeocodeEnd(r) ==
    /\ req[r].pc = "geo_end"
    /\ \E resp \in GeocodeResponses :
        LET o == Geocoded(obs[r], resp, "end")
            f == [req[r] EXCEPT !.end_coords = GeocodeResult(resp.data, "end")]
        IN  IF RaiseForStatus(resp.status)
            THEN /\ req' = [req EXCEPT ![r] = Raise(@, 500)]
                 /\ obs' = [obs EXCEPT ![r] = o]
            ELSE IF Unresolved(f)
                 THEN /\ req' = [req EXCEPT ![r] =
                            [f EXCEPT !.pc = "done",
                                      !.response = [kind |-> "body_error", code |-> 200,
                                                    routes |-> <<>>]]]
                      /\ obs' = [obs EXCEPT ![r] = o]
                 ELSE /\ req' = [req EXCEPT ![r] = [f EXCEPT !.pc = "routing"]]
                      /\ obs' = [obs EXCEPT ![r] = Sent(o, "routing", 0, 0)]
    /\ UNCHANGED <<openrouter_lock, graphhopper>>

\* resp = await client.get(gh_url, ...); route_data = resp.json()
Routing(r) ==
    /\ req[r].pc = "routing"
    /\ \E status \in {200, 500} :
        /\ req' = [req EXCEPT ![r] =
                IF RaiseForStatus(status) THEN Raise(@, 500)
                ELSE [@ EXCEPT !.pc = "path_loop", !.route_data = graphhopper,
                               !.routes_with_status = <<>>, !.path = 1]]
        /\ obs' = [obs EXCEPT ![r] =
                IF status >= 400 THEN Failed(@, "routing") ELSE Answered(@)]
    /\ UNCHANGED <<openrouter_lock, graphhopper>>

\* `for path in route_data.get("paths", [])`: the next candidate enters the
\* sampler, or the response is returned
PathLoop(r) ==
    /\ req[r].pc = "path_loop"
    /\ LET f == req[r] IN
        IF f.path <= Len(f.route_data)
        THEN /\ req' = [req EXCEPT ![r] =
                    [f EXCEPT !.pc = "sm_loop", !.coords_list = f.route_data[f.path],
                              !.step = RouteStep, !.images = <<>>, !.i = 0]]
             /\ obs' = [obs EXCEPT ![r] = [@ EXCEPT !.queried = <<>>, !.found = <<>>]]
        ELSE /\ req' = [req EXCEPT ![r] =
                    [f EXCEPT !.pc = "done",
                              !.response = [kind |-> "routes", code |-> 200,
                                            routes |-> f.routes_with_status]]]
             /\ UNCHANGED obs
    /\ UNCHANGED <<openrouter_lock, graphhopper>>

(***************************************************************************)
(* get_mapillary_images_along_route                                        *)
(***************************************************************************)
\* `for i in range(0, len(coords_list), step)`: the query for index i is
\* sent, or the images are returned and classify_route_safety starts
SamplerLoop(r) ==
    /\ req[r].pc = "sm_loop"
    /\ LET f == req[r] IN
        IF RangeHas(f.i, f.coords_list)
        THEN /\ req' = [req EXCEPT ![r].pc = "sm_get"]
             /\ obs' = [obs EXCEPT ![r] =
                    Sent([@ EXCEPT !.queried = Append(@, f.i)], "imagery", f.path, f.i)]
        ELSE /\ req' = [req EXCEPT ![r] =
                    [f EXCEPT !.pc = "cl_loop", !.safe_count = 0,
                              !.danger_count = 0, !.k = 0]]
             /\ obs' = [obs EXCEPT ![r] =
                    [@ EXCEPT !.classified = <<>>, !.verdicts = <<>>]]
    /\ UNCHANGED <<openrouter_lock, graphhopper>>

\* nearby = await get_mapillary_image_near_point(lat, lon)
SamplerGet(r) ==
    /\ req[r].pc = "sm_get"
    /\ \E resp \in MapillaryResponses :
        /\ req' = [req EXCEPT ![r] =
                IF RaiseForStatus(resp.status) THEN Raise(@, 500)
                ELSE [@ EXCEPT !.pc = "sm_sleep", !.images = Extend(@, resp.data)]]
        /\ obs' = [obs EXCEPT ![r] =
                IF resp.status >= 400 THEN Failed(@, "imagery")
                ELSE Answered([@ EXCEPT !.found = Append(@, resp.data)])]
    /\ UNCHANGED <<openrouter_lock, graphhopper>>

\* await asyncio.sleep(0.2), then the next index of the range
SamplerSleep(r) ==
    /\ req[r].pc = "sm_sleep"
    /\ req' = [req EXCEPT ![r] =
            [@ EXCEPT !.pc = "sm_loop", !.i = RangeNext(@, req[r].step)]]
    /\ UNCHANGED <<openrouter_lock, graphhopper, obs>>

(***************************************************************************)
(* classify_route_safety                                                   *)
(***************************************************************************)
\* `for img in images[:max_images]`: the next image is skipped or handed to
\* analyze_image, or the verdict is returned and appended to the routes
ClassifyLoop(r) ==
    /\ req[r].pc = "cl_loop"
    /\ LET f == req[r]
           slice == Analyzed(f.images)
       IN
        IF f.k < Len(slice)
        THEN IF Usable(slice[f.k + 1].thumb_1024_url)
             THEN /\ req' = [req EXCEPT ![r] =
                        [f EXCEPT !.pc = "an_lock", !.k = f.k + 1, !.attempt = 0,
                                  !.image_url = slice[f.k + 1].thumb_1024_url]]
                  /\ obs' = [obs EXCEPT ![r] =
                        [@ EXCEPT !.classified = Append(@, f.k + 1), !.seen = <<>>,
                                  !.answer = <<>>, !.outcome = "none",
                                  !.posted = <<>>]]
             ELSE /\ req' = [req EXCEPT ![r].k = f.k + 1]
                  /\ UNCHANGED obs
        ELSE /\ req' = [req EXCEPT ![r] =
                    [f EXCEPT !.pc = "path_loop", !.path = NextCandidate(f.path),
                              !.routes_with_status = Append(@, RouteEntry(f))]]
             /\ UNCHANGED obs
    /\ UNCHANGED <<openrouter_lock, graphhopper>>

\* `if "danger" in decision: danger_count += 1 else: safe_count += 1`
Count(r) ==
    /\ req[r].pc = "cl_count"
    /\ req' = [req EXCEPT ![r] =
            IF IsDanger(@.decision)
            THEN [@ EXCEPT !.pc = "cl_sleep", !.danger_count = @ + 1, !.decision = <<>>]
            ELSE [@ EXCEPT !.pc = "cl_sleep", !.safe_count = @ + 1, !.decision = <<>>]]
    /\ UNCHANGED <<openrouter_lock, graphhopper, obs>>

\* await asyncio.sleep(1)
ClassifySleep(r) ==
    /\ req[r].pc = "cl_sleep"
    /\ req' = [req EXCEPT ![r].pc = "cl_loop"]
    /\ UNCHANGED <<openrouter_lock, graphhopper, obs>>


(***************************************************************************)
(* analyze_image                                                           *)
(***************************************************************************)
\* `raise HTTPException(status_code=429, ...)` after the loop
ExhaustedDefaultsSafe(f) ==
    [f EXCEPT !.pc = "cl_count", !.decision = <<"s", "a", "f", "e">>]
Exhausted(f) == Raise(f, 429)

\* `wait = int(retry_after) if retry_after else 5`
HeaderTruthy(h) == h.present /\ h.value # <<>>
WaitOf(h) == IF HeaderTruthy(h) THEN IntOf(h.value) ELSE FallbackWait

\* `async with openrouter_lock`: the lock is taken, or the coroutine queues
AcquireLock(r) ==
    /\ req[r].pc = "an_lock"
    /\ IF LockTakeable(openrouter_lock)
       THEN /\ openrouter_lock' = [openrouter_lock EXCEPT !.locked = TRUE]
            /\ req' = [req EXCEPT ![r].pc = "an_loop"]
       ELSE /\ openrouter_lock' = [openrouter_lock EXCEPT !.waiters = Append(@, r)]
            /\ req' = [req EXCEPT ![r].pc = "an_wait"]
    /\ UNCHANGED <<graphhopper, obs>>

\* the woken waiter leaves the queue and takes the lock
LockResume(r) ==
    /\ req[r].pc = "an_wait"
    /\ r \in openrouter_lock.woken
    /\ openrouter_lock' = [locked |-> TRUE,
                           waiters |-> Remove(openrouter_lock.waiters, r),
                           woken |-> {}]
    /\ req' = [req EXCEPT ![r].pc = "an_loop"]
    /\ UNCHANGED <<graphhopper, obs>>

\* `for attempt in range(retries)`: the POST is sent, or the loop is over,
\* the rate-limit exception is raised and the lock is left
AttemptLoop(r) ==
    /\ req[r].pc = "an_loop"
    /\ IF AttemptInRange(req[r].attempt)
       THEN /\ req' = [req EXCEPT ![r].pc = "an_post"]
            /\ obs' = [obs EXCEPT ![r] =
                    Sent([@ EXCEPT !.posted = Append(@, req[r].image_url)],
                         "openrouter", req[r].path, req[r].k)]
            /\ UNCHANGED openrouter_lock
       ELSE /\ req' = [req EXCEPT ![r] = Exhausted(@)]
            /\ openrouter_lock' = Release(openrouter_lock)
            /\ obs' = [obs EXCEPT ![r].outcome = "rate_limit"]
    /\ UNCHANGED graphhopper

\* resp = await client.post(...); raise_for_status(); the answer is
\* returned, or the HTTPStatusError is handled
Post(r) ==
    /\ req[r].pc = "an_post"
    /\ \E resp \in OpenRouterResponses :
        /\ IF ~RaiseForStatus(resp.status)
           THEN /\ req' = [req EXCEPT ![r] =
                        [@ EXCEPT !.pc = "cl_count", !.decision = Decision(resp.content)]]
                /\ openrouter_lock' = Release(openrouter_lock)
                /\ obs' = [obs EXCEPT ![r] =
                        [Answered(@) EXCEPT
                            !.seen = Append(@, resp.status),
                            !.verdicts = Append(@, NamesDanger(resp.content)),
                            !.answer = resp.content, !.outcome = "verdict"]]
           ELSE IF Retryable(resp.status)
                    /\ (HeaderTruthy(resp.retry_after) => IsDigits(resp.retry_after.value))
                THEN /\ req' = [req EXCEPT ![r] =
                            [@ EXCEPT !.pc = "an_sleep", !.wait = WaitOf(resp.retry_after)]]
                     /\ openrouter_lock' = LockWhileSleeping(openrouter_lock)
                     /\ obs' = [obs EXCEPT ![r] =
                            [Answered(@) EXCEPT
                                !.seen = Append(@, resp.status),
                                !.after429 = resp.status = 429,
                                !.retry_after = resp.retry_after]]
                \* `raise`, or the ValueError of int(): the lock is left
                ELSE /\ req' = [req EXCEPT ![r] = Raise(@, 500)]
                     /\ openrouter_lock' = Release(openrouter_lock)
                     /\ obs' = [obs EXCEPT ![r] =
                            [Answered(@) EXCEPT
                                !.seen = Append(@, resp.status),
                                !.after429 = resp.status = 429,
                                !.retry_after = resp.retry_after,
                                !.outcome = "error"]]
    /\ UNCHANGED graphhopper

\* await asyncio.sleep(wait), then the next attempt of the range
RetrySleep(r) ==
    /\ req[r].pc = "an_sleep"
    /\ req' = [req EXCEPT ![r] =
            [@ EXCEPT !.pc = "an_loop", !.attempt = @ + 1, !.wait = 0]]
    /\ obs' = [obs EXCEPT ![r] = [@ EXCEPT !.after429 = FALSE, !.retry_after = NoHeader]]
    /\ UNCHANGED <<openrouter_lock, graphhopper>>

(***************************************************************************)
(* Specifications.                                                         *)
(***************************************************************************)
\* number of elements of range(0, len, step)
NumSamples(len, step) == (len + step - 1) \div step

\* a request starts with geocode(start_place) sent
StartObs == Sent(NoObs, "geocode", 0, 1)

\* Spec: NumReqs concurrent /route requests; the router knows no route or one
\* route of a single point.

Init ==
    /\ req = [r \in Reqs |-> Frame("geo_start")]
    /\ openrouter_lock = FreeLock
    /\ graphhopper \in {<<>>, <<1>>}
    /\ obs = [r \in Reqs |-> StartObs]

Next ==
    \E r \in Reqs :
        \/ GeocodeStart(r) \/ GeocodeEnd(r) \/ Routing(r) \/ PathLoop(r)
        \/ SamplerLoop(r) \/ SamplerGet(r) \/ SamplerSleep(r)
        \/ ClassifyLoop(r) \/ Count(r) \/ ClassifySleep(r)
        \/ AcquireLock(r) \/ LockResume(r) \/ AttemptLoop(r) \/ Post(r)
        \/ RetrySleep(r)

Spec == Init /\ [][Next]_vars

\* SpecFair: Spec under the scheduling of the asyncio event loop, which runs
\* every coroutine that is ready, every awaited answer and sleep coming to
\* an end: a step of a request that stays possible is eventually taken.
Step(r) ==
    \/ GeocodeStart(r) \/ GeocodeEnd(r) \/ Routing(r) \/ PathLoop(r)
    \/ SamplerLoop(r) \/ SamplerGet(r) \/ SamplerSleep(r)
    \/ ClassifyLoop(r) \/ Count(r) \/ ClassifySleep(r)
    \/ AcquireLock(r) \/ LockResume(r) \/ AttemptLoop(r) \/ Post(r)
    \/ RetrySleep(r)

SpecFair == Init /\ [][Next]_vars /\ \A r \in Reqs : WF_vars(Step(r))

\* SpecClassify: one call of classify_route_safety on every image list of at
\* most MaxImages images.
Resolved(p, len, step) ==
    [Frame(p) EXCEPT !.start_coords = "start", !.end_coords = "end",
                     !.route_data = <<len>>, !.path = 1, !.coords_list = len,
                     !.step = step]

\* what has been observed of a request whose sampler got the images imgs,
\* one per query, with stride step
SampledObs(imgs, step) ==
    [NoObs EXCEPT
        !.called = {"geocode", "routing"} \cup (IF imgs = <<>> THEN {} ELSE {"imagery"}),
        !.last = IF imgs = <<>> THEN [svc |-> "routing", path |-> 0, idx |-> 0]
                 ELSE [svc |-> "imagery", path |-> 1, idx |-> step * (Len(imgs) - 1)],
        !.queried = [j \in 1..Len(imgs) |-> step * (j - 1)],
        !.found = [j \in 1..Len(imgs) |-> <<imgs[j]>>]]

InitClassify ==
    /\ \E imgs \in SeqsUpTo(Images, MaxImages) :
        /\ graphhopper = <<RouteStep * Len(imgs)>>
        /\ req = [r \in Reqs |->
                IF r = 1
                THEN [Resolved("cl_loop", RouteStep * Len(imgs), RouteStep)
                        EXCEPT !.images = imgs, !.i = RouteStep * Len(imgs)]
                ELSE Frame("idle")]
        /\ obs = [r \in Reqs |->
                IF r = 1 THEN SampledObs(imgs, RouteStep) ELSE NoObs]
    /\ openrouter_lock = FreeLock

NextClassify ==
    \E r \in Reqs :
        \/ ClassifyLoop(r) \/ Count(r) \/ ClassifySleep(r)
        \/ AcquireLock(r) \/ AttemptLoop(r) \/ Post(r) \/ RetrySleep(r)

SpecClassify == InitClassify /\ [][NextClassify]_vars

\* SpecSampler: one call of get_mapillary_images_along_route on every
\* coordinate list and stride that give at most MaxSamples sample points.
InitSampler ==
    /\ \E len \in 0..MaxLen, step \in 1..MaxStep :
        /\ NumSamples(len, step) <= MaxSamples
        /\ graphhopper = <<len>>
        /\ req = [r \in Reqs |->
                IF r = 1 THEN Resolved("sm_loop", len, step) ELSE Frame("idle")]
        /\ obs = [r \in Reqs |-> IF r = 1 THEN SampledObs(<<>>, step) ELSE NoObs]
    /\ openrouter_lock = FreeLock

NextSampler ==
    \E r \in Reqs : SamplerLoop(r) \/ SamplerGet(r) \/ SamplerSleep(r)

SpecSampler == InitSampler /\ [][NextSampler]_vars


\* SpecSeq: one /route request; the router returns up to MaxPaths routes of
\* 0, 1 or 20 points.
PathLens == {0, 1, MaxLen}

InitSeq ==
    /\ req = [r \in Reqs |-> IF r = 1 THEN Frame("geo_start") ELSE Frame("idle")]
    /\ openrouter_lock = FreeLock
    /\ graphhopper \in SeqsUpTo(PathLens, MaxPaths)
    /\ obs = [r \in Reqs |-> IF r = 1 THEN StartObs ELSE NoObs]

NextSeq ==
    \E r \in Reqs :
        \/ GeocodeStart(r) \/ GeocodeEnd(r) \/ Routing(r) \/ PathLoop(r)
        \/ SamplerLoop(r) \/ SamplerGet(r) \/ SamplerSleep(r)
        \/ ClassifyLoop(r) \/ Count(r) \/ ClassifySleep(r)
        \/ AcquireLock(r) \/ AttemptLoop(r) \/ Post(r) \/ RetrySleep(r)

SpecSeq == InitSeq /\ [][NextSeq]_vars


(***************************************************************************)
(* Properties.                                                             *)
(***************************************************************************)
\* the request is between taking openrouter_lock and leaving it
InCall(r) == req[r].pc \in {"an_loop", "an_post", "an_sleep"}

\* classify_route_safety has returned and its verdict is the last route entry
Returned(r) == req[r].pc = "path_loop" /\ req[r].routes_with_status # <<>>

Status(r) == req[r].routes_with_status[Len(req[r].routes_with_status)].status

CountOf(s, v) == Cardinality({n \in DOMAIN s : s[n] = v})

HasUrl(img) == img.thumb_1024_url \notin {None, ""}

Last(s) == s[Len(s)]

IsPrefix(s, t) == Len(s) <= Len(t) /\ s = SubSeq(t, 1, Len(s))

\* C1: at every instant at most one request is inside a classification call
\* (between acquiring openrouter_lock and leaving it), whatever the
\* interleaving of the concurrent /route requests.
C1_GlobalExclusion == Cardinality({r \in Reqs : InCall(r)}) <= 1

\* one request is awaiting its POST while another queues at the gate
C1_Witness ==
    \E r1, r2 \in Reqs : req[r1].pc = "an_post" /\ req[r2].pc = "an_wait"

\* C2: for an image list of at most 5 images, classify_route_safety returns
\* "danger" if and only if strictly more answers name danger than do not;
\* equal counts give "safe".
C2_StrictMajority ==
    \A r \in Reqs :
        (Returned(r) /\ Len(req[r].images) <= 5) =>
            /\ Status(r) \in {"safe", "danger"}
            /\ Status(r) = "danger" <=>
                CountOf(obs[r].verdicts, TRUE) > CountOf(obs[r].verdicts, FALSE)

\* a tie of 2 safe and 2 danger has been returned as "safe"
C2_Witness ==
    \E r \in Reqs :
        /\ Returned(r) /\ Len(req[r].images) <= 5
        /\ CountOf(obs[r].verdicts, TRUE) = 2
        /\ CountOf(obs[r].verdicts, FALSE) = 2
        /\ Status(r) = "safe"

\* C3: a call answered 429 on each of its 3 attempts ends in the rate-limit
\* error and gives no verdict, no fourth attempt is made, and a call gives a
\* verdict exactly when a success follows k < 3 consecutive 429 answers.
C3_RetryBudget ==
    \A r \in Reqs :
        LET seen == obs[r].seen
            n429 == CountOf(seen, 429)
        IN  /\ Len(seen) <= 3
            /\ (n429 = 3) => obs[r].outcome \in {"none", "rate_limit"}
            /\ obs[r].outcome = "rate_limit" => seen = <<429, 429, 429>>
            /\ (seen # <<>> /\ Last(seen) = 200) =>
                    /\ obs[r].outcome = "verdict"
                    /\ n429 = Len(seen) - 1 /\ n429 < 3
                    /\ req[r].pc = "cl_count" =>
                        (IsDanger(req[r].decision) <=> NamesDanger(obs[r].answer))
            /\ obs[r].outcome = "verdict" => (seen # <<>> /\ Last(seen) = 200)

\* C4: once a classification call has exhausted its retries the request has
\* ended with HTTP 429 and no routes list, the image was not counted, and
\* nothing more happens in that request.
C4_ExhaustionSurfaced ==
    /\ [](\A r \in Reqs :
            obs[r].outcome = "rate_limit" =>
                /\ req[r].pc = "done"
                /\ req[r].response = [kind |-> "http_error", code |-> 429, routes |-> <<>>]
                /\ req[r].safe_count + req[r].danger_count = Len(obs[r].classified) - 1)
    /\ [][\A r \in Reqs :
            obs[r].outcome = "rate_limit" => (req'[r] = req[r] /\ obs'[r] = obs[r])]_vars

\* retries ran out on the first of two usable images of the second route,
\* after the first route had got its verdict
C4_Witness ==
    \E r \in Reqs :
        /\ obs[r].outcome = "rate_limit"
        /\ req[r].response.code = 429
        /\ req[r].routes_with_status # <<>>
        /\ req[r].k = 1
        /\ Len(req[r].images) = 2 /\ HasUrl(req[r].images[2])

\* C5: an error answer other than 429 ends the call at once, on whichever
\* attempt: the request has failed, no wait was set, no verdict was given
\* and no further POST follows.
C5_NoRetryOnOtherErrors ==
    /\ [](\A r \in Reqs :
            (obs[r].seen # <<>> /\ Last(obs[r].seen) \notin {200, 429}) =>
                /\ obs[r].outcome = "error"
                /\ req[r].pc = "done"
                /\ req[r].response.kind = "http_error"
                /\ req[r].wait = 0
                /\ Len(obs[r].verdicts) = Len(obs[r].classified) - 1)
    /\ [][\A r \in Reqs :
            (obs[r].seen # <<>> /\ Last(obs[r].seen) \notin {200, 429}) =>
                (req'[r] = req[r] /\ obs'[r] = obs[r])]_vars

\* the second attempt of a call was answered 401
C5_Witness ==
    \E r \in Reqs : obs[r].seen = <<429, 401>> /\ req[r].pc = "done"

\* C6: the counting step counts an answer as danger exactly when its raw
\* text holds "danger" in any letter case, and as safe otherwise.
C6_Coercion ==
    [][\A r \in Reqs :
        (req[r].pc = "cl_count" /\ req'[r].pc # "cl_count") =>
            IF NamesDanger(obs[r].answer)
            THEN /\ req'[r].danger_count = req[r].danger_count + 1
                 /\ req'[r].safe_count = req[r].safe_count
            ELSE /\ req'[r].safe_count = req[r].safe_count + 1
                 /\ req'[r].danger_count = req[r].danger_count]_vars

\* the answer " DaNGer\n" has been counted as danger after an answer counted
\* as safe
C6_Witness ==
    \E r \in Reqs :
        /\ req[r].pc = "cl_sleep"
        /\ obs[r].answer = <<" ", "D", "a", "N", "G", "e", "r", "\n">>
        /\ req[r].danger_count = 1
        /\ req[r].safe_count = 1

\* C7: only positions 1..5 of the image list are ever handed to the
\* classifier, and the verdict returned is the one the answers for those
\* positions give, whatever stands at position 6 and later.
C7_FirstFiveOnly ==
    \A r \in Reqs :
        LET f == req[r]
            five == {n \in 1..5 : n <= Len(f.images) /\ HasUrl(f.images[n])}
        IN  /\ \A n \in DOMAIN obs[r].classified : obs[r].classified[n] \in five
            /\ Len(obs[r].classified) <= 5
            /\ Returned(r) =>
                /\ Len(obs[r].classified) = Cardinality(five)
                /\ Len(obs[r].verdicts) = Cardinality(five)
                /\ Status(r) = IF CountOf(obs[r].verdicts, TRUE)
                                    > CountOf(obs[r].verdicts, FALSE)
                               THEN "danger" ELSE "safe"

\* a list of 6 usable images has been judged from 5 calls
C7_Witness ==
    \E r \in Reqs :
        /\ Returned(r)
        /\ Len(req[r].images) = 6
        /\ \A n \in 1..6 : HasUrl(req[r].images[n])
        /\ obs[r].classified = <<1, 2, 3, 4, 5>>

\* C8: while classify_route_safety runs on a list whose first 5 images have
\* no usable URL (the empty list included), no classification call is made,
\* the gate is never taken, and the verdict returned is "safe".
C8_NoUsableImage ==
    \A r \in Reqs :
        (req[r].pc # "idle"
            /\ \A n \in 1..5 : n <= Len(req[r].images) => ~HasUrl(req[r].images[n])) =>
            /\ req[r].pc \in {"cl_loop", "path_loop"}
            /\ obs[r].classified = <<>>
            /\ ~openrouter_lock.locked
            /\ Returned(r) => Status(r) = "safe"

\* a non-empty list without usable URL has been judged
C8_Witness ==
    \E r \in Reqs :
        /\ Returned(r)
        /\ Len(req[r].images) = 2
        /\ \A n \in 1..2 : ~HasUrl(req[r].images[n])
        /\ Status(r) = "safe"

\* C9: openrouter_lock is held only while some request is inside a
\* classification call: every way out of analyze_image has released it.
C9_LockReleased ==
    /\ openrouter_lock.locked => \E r \in Reqs : InCall(r)
    /\ \A r \in Reqs :
        (obs[r].outcome # "none" /\ ~\E q \in Reqs : InCall(q)) =>
            ~openrouter_lock.locked

\* one request left its call by exhausted retries, another by a non-429
\* error, and the lock is free
C9_Witness ==
    \E r1, r2 \in Reqs :
        /\ obs[r1].outcome = "rate_limit"
        /\ obs[r2].outcome = "error"
        /\ ~openrouter_lock.locked

\* C10: the sampler queries exactly the indices 0, N, 2N, ... below L, in
\* increasing order and once each; with L = 20 and N = 15 these are 0 and 15.
SampleIndices(len, step) ==
    LET multiples == {m \in 0..(len - 1) : m % step = 0}
    IN  [j \in 1..Cardinality(multiples) |-> (j - 1) * step]

C10_SampledIndices ==
    \A r \in Reqs :
        LET f == req[r]
            expected == SampleIndices(f.coords_list, f.step)
        IN  /\ f.pc \in {"sm_loop", "sm_get", "sm_sleep", "done"} =>
                IsPrefix(obs[r].queried, expected)
            /\ f.pc = "cl_loop" => obs[r].queried = expected
            /\ (f.pc = "cl_loop" /\ f.coords_list = 20 /\ f.step = 15) =>
                obs[r].queried = <<0, 15>>

\* the sampler has returned from a list of 20 coordinates with stride 15
C10_Witness ==
    \E r \in Reqs :
        /\ req[r].pc = "cl_loop"
        /\ req[r].coords_list = 20 /\ req[r].step = 15
        /\ obs[r].queried = <<0, 15>>


\* C11 as stated: when the geocoder reports not-found for the start place or
\* for the end place, the request issues no routing call, no imagery query
\* and no classification call, and it ends with the HTTP 200 response
\* {"error": "Lieu introuvable"}.
NoCallBeyondGeocoding(r) ==
    /\ obs[r].called \subseteq {"geocode"}
    /\ req[r].pc \in {"geo_end", "done"}
NotFoundResponse == [kind |-> "body_error", code |-> 200, routes |-> <<>>]

Stage(c) ==
    CASE c.svc = "geocode" -> c.idx
      [] c.svc = "routing" -> 3
      [] OTHER -> 4
Kind(c) == IF c.svc = "imagery" THEN 0 ELSE 1
InOrder(a, b) ==
    IF Stage(a) < 4
    THEN Stage(b) = Stage(a) + 1
    ELSE /\ Stage(b) = 4
         /\ \/ a.path < b.path
            \/ /\ a.path = b.path
               /\ \/ Kind(a) < Kind(b)
                  \/ /\ Kind(a) = Kind(b)
                     /\ \/ a.idx < b.idx
                        \/ a.svc = "openrouter" /\ a.idx = b.idx
\* this step sends a call of request r
Sends(r) ==
    \/ obs'[r].last # obs[r].last
    \/ obs'[r].pending > obs[r].pending

\* C12: within one /route request at most one outbound call is in flight at
\* any time, a call is sent only when no other is in flight and later in the
\* fixed order than the call before it, and a call of candidate p is sent only
\* when the verdicts of the candidates 1..p-1, and no more, are computed.
C12_Sequential ==
    /\ [](\A r \in Reqs : obs[r].pending \in {0, 1})
    /\ [][\A r \in Reqs :
            Sends(r) =>
                /\ obs'[r].pending = 1
                /\ InOrder(obs[r].last, obs'[r].last)
                /\ obs'[r].last.path > 0 =>
                        /\ obs'[r].last.path = req'[r].path
                        /\ Len(req'[r].routes_with_status) = obs'[r].last.path - 1]_vars

\* an image of the second candidate is being classified after the first
\* candidate was sampled, classified and given its verdict
C12_Witness ==
    \E r \in Reqs :
        /\ obs[r].last.svc = "openrouter" /\ obs[r].last.path = 2
        /\ obs[r].pending = 1
        /\ Len(req[r].routes_with_status) = 1
        /\ req[r].routes_with_status[1].images # <<>>


\* C13: once the geocoding, routing or imagery service has given a
\* non-success answer, the request has ended with an error and no routes
\* list, the failed call is the last call it sent, and it sends no other call
\* (the request never moves again).
C13_UpstreamFailureFatal ==
    /\ [](\A r \in Reqs :
            obs[r].failed # "none" =>
                /\ req[r].pc = "done"
                /\ req[r].response.kind = "http_error"
                /\ req[r].response.code >= 500
                /\ req[r].response.routes = <<>>
                /\ obs[r].last.svc = obs[r].failed
                /\ obs[r].pending = 0)
    /\ [][\A r \in Reqs :
            obs[r].failed # "none" => req'[r] = req[r] /\ obs'[r] = obs[r]]_vars

\* the imagery service failed on the second candidate, after the first one
\* was classified from images
C13_Witness ==
    \E r \in Reqs :
        /\ obs[r].failed = "imagery"
        /\ obs[r].last.path = 2
        /\ Len(req[r].routes_with_status) = 1
        /\ req[r].routes_with_status[1].images # <<>>
        /\ req[r].response.routes = <<>>


\* the images of all answers, in the order of the answers
RECURSIVE Flatten(_)
Flatten(ss) == IF ss = <<>> THEN <<>> ELSE Head(ss) \o Flatten(Tail(ss))

\* the aggregate of the verdicts: "danger" when more images were said to
\* show danger than not
VerdictOf(vs) == IF CountOf(vs, TRUE) > CountOf(vs, FALSE) THEN "danger" ELSE "safe"

\* this step appends the entry of a candidate to the routes of request r
Appends(r) == Len(req'[r].routes_with_status) = Len(req[r].routes_with_status) + 1

\* C14: a successful /route response has exactly one entry per candidate the
\* router returned, in the router's order; the entry of a candidate is
\* appended with the aggregate of the verdicts on the images that the
\* sampler found along that candidate; and with one candidate sampled at
\* indices 0 and 15, one image per query and both said to be safe, the
\* response has one entry with status "safe".
C14_OneEntryPerCandidate ==
    /\ [](\A r \in Reqs :
            (req[r].pc = "done" /\ req[r].response.kind = "routes") =>
                LET routes == req[r].response.routes IN
                /\ req[r].response.code = 200
                /\ req[r].route_data = graphhopper
                /\ Len(routes) = Len(graphhopper)
                /\ \A p \in DOMAIN routes : routes[p].path = p
                /\ (/\ Len(graphhopper) = 1
                    /\ obs[r].queried = <<0, RouteStep>>
                    /\ \A j \in DOMAIN obs[r].found : Len(obs[r].found[j]) = 1
                    /\ obs[r].verdicts = <<FALSE, FALSE>>)
                        => Len(routes) = 1 /\ routes[1].status = "safe")
    /\ [][\A r \in Reqs :
            Appends(r) =>
                LET entry == Last(req'[r].routes_with_status) IN
                /\ entry.path = req[r].path
                /\ obs[r].queried = SampleIndices(req[r].route_data[req[r].path], RouteStep)
                /\ req[r].images = Flatten(obs[r].found)
                /\ Len(obs[r].verdicts) =
                        Cardinality({n \in 1..Min(max_images, Len(req[r].images)) :
                                        HasUrl(req[r].images[n])})
                /\ entry.status = VerdictOf(obs[r].verdicts)]_vars

\* the scenario: one candidate of 20 points, queried at 0 and 15, one image
\* per query, the answer "safe" for both, one entry "safe" returned
C14_Witness ==
    \E r \in Reqs :
        /\ req[r].pc = "done" /\ req[r].response.kind = "routes"
        /\ graphhopper = <<20>>
        /\ obs[r].queried = <<0, 15>>
        /\ Len(obs[r].found) = 2 /\ \A j \in 1..2 : Len(obs[r].found[j]) = 1
        /\ Len(obs[r].verdicts) = 2
        /\ obs[r].answer = <<"s", "a", "f", "e">>
        /\ CountOf(obs[r].verdicts, FALSE) = 2
        /\ Len(req[r].response.routes) = 1
        /\ req[r].response.routes[1].status = "safe"


\* ceil(len / step)
CeilDiv(len, step) == CHOOSE c \in 0..len : c * step >= len /\ (c - 1) * step < len

InSampler(r) == req[r].pc \in {"sm_loop", "sm_get", "sm_sleep"}
Sampled(r) == req[r].pc = "cl_loop" /\ req[r].k = 0

Posts(q) == req[q].pc # "an_post" /\ req'[q].pc = "an_post"

\* C16: from the moment a classification call holds the gate until its
\* final outcome, the waits after 429 answers included, the gate stays
\* locked, and while the call goes on no other request sends a
\* classification attempt or is between its own attempts.
C16_HeldAcrossRetries ==
    /\ [](\A r \in Reqs :
            InCall(r) =>
                /\ openrouter_lock.locked
                /\ \A q \in Reqs \ {r} : req[q].pc \notin {"an_post", "an_sleep"})
    /\ [][\A r \in Reqs :
            (InCall(r) /\ InCall(r)') =>
                /\ openrouter_lock'.locked
                /\ \A q \in Reqs \ {r} : ~Posts(q)]_vars

\* a call waits after its second 429 answer while another request is queued
\* at the gate
C16_Witness ==
    \E r \in Reqs : \E q \in Reqs \ {r} :
        /\ req[r].pc = "an_sleep" /\ req[r].attempt = 1
        /\ obs[r].seen = <<429, 429>>
        /\ req[q].pc = "an_wait"
        /\ openrouter_lock.locked


\* C17 as stated: after each 429 answer analyze_image is waiting, with no
\* POST in flight, for the interval of the Retry-After header when the
\* answer carries one and for 5 otherwise; and all the attempts of one call
\* send the same request.
C17_WaitThenRetry ==
    \A r \in Reqs :
        /\ obs[r].after429 =>
                /\ req[r].pc = "an_sleep"
                /\ obs[r].pending = 0
                /\ ~HeaderTruthy(obs[r].retry_after) => req[r].wait = 5
                /\ (HeaderTruthy(obs[r].retry_after)
                        /\ IsDigits(obs[r].retry_after.value))
                    => req[r].wait = IntOf(obs[r].retry_after.value)
        /\ \A m, n \in DOMAIN obs[r].posted : obs[r].posted[m] = obs[r].posted[n]


\* the images among the first five that have a usable thumbnail URL
UsableAmongFirstFive(images) ==
    Cardinality({n \in 1..Min(5, Len(images)) : HasUrl(images[n])})

\* C18: for every image list and every sequence of provider answers,
\* classify_route_safety starts at most 5 classification calls, every call
\* sends at most 3 POST requests, and at return safe_count + danger_count is
\* the number of images among the first 5 that have a usable thumbnail URL.
C18_BoundedSpend ==
    \A r \in Reqs :
        /\ Len(obs[r].classified) <= 5
        /\ Len(obs[r].posted) <= 3
        /\ Len(obs[r].seen) <= Len(obs[r].posted)
        /\ Returned(r) =>
                /\ req[r].safe_count + req[r].danger_count
                        = UsableAmongFirstFive(req[r].images)
                /\ Len(obs[r].classified) = UsableAmongFirstFive(req[r].images)

\* six images, one of the first five without a URL: four calls were made,
\* the last one with three POSTs, and four images were counted
C18_Witness ==
    \E r \in Reqs :
        /\ Returned(r)
        /\ Len(req[r].images) = 6
        /\ Len(obs[r].classified) = 4
        /\ obs[r].seen = <<429, 429, 200>>
        /\ Len(obs[r].posted) = 3
        /\ req[r].safe_count + req[r].danger_count = 4


\* C19: under fair scheduling, with every outbound call answered, every one
\* of the concurrent /route requests eventually ends with a response or an
\* error; a request queued at the gate is eventually admitted; and a
\* classification call eventually comes to its outcome.
C19_Progress ==
    /\ \A r \in Reqs : <>(req[r].pc = "done" /\ req[r].response.kind # "none")
    /\ \A r \in Reqs : (req[r].pc = "an_wait") ~> InCall(r)
    /\ \A r \in Reqs : InCall(r) ~> (req[r].pc \in {"cl_count", "done"})

\* a request queued at the gate is woken to take it, after the call it
\* queued behind used up its three attempts and its request ended
C19_Witness ==
    \E r \in Reqs : \E q \in Reqs \ {r} :
        /\ req[r].pc = "an_wait" /\ openrouter_lock.woken = {r}
        /\ ~openrouter_lock.locked
        /\ obs[q].seen = <<429, 429, 429>> /\ obs[q].outcome = "rate_limit"
        /\ req[q].pc = "done" /\ req[q].response.code = 429
====
